---- MODULE Spec2Model ----
(***************************************************************************)
(* The tool-call orchestration loop of the Visionary application:          *)
(* App.handleSendMessage / App.handleImageUpload (src/App.tsx), the        *)
(* capability wrappers runDinoV3 / runOCR (src/services/geminiService.ts), *)
(* the lazily loaded detection model (src/services/visionService.ts) and   *)
(* the form handler ChatArea.handleSubmit (src/unnamed/part_002).          *)
(*                                                                         *)
(* An async function is modelled by one action per continuation: the code  *)
(* between two awaits runs atomically, as on the JavaScript event loop.    *)
(* The values an async function closes over (currentImage and              *)
(* currentImageBase64 of the render that created handleSendMessage) are    *)
(* copied into the loop record when the function is called.                *)
(***************************************************************************)
EXTENDS Integers, Sequences, FiniteSets, TLC

\* ------------------------------------------------------------------ bounds
MaxLoops == 2       \* handleSendMessage activations that can coexist
MaxEvents == 4      \* exchanges started + files processed + model turns
                    \* carrying tool requests, in one run
MaxCalls == 2       \* tool requests in one model turn
MaxLiveEvents == 3  \* as MaxEvents, in the runs checked for termination

VARIABLES
  messages,            \* App state: Message[]
  toolLogs,            \* App state: ToolLog[] (the ledger)
  isAnalyzing,         \* App state
  currentImage,        \* App state: object URL of the active image, or null
  currentImageBase64,  \* App state: payload of the active image, or null
  detections,          \* App state: BoundingBox[] (the aggregated set)
  modelStatus,         \* App state: 'idle' | 'loading' | 'ready'
  chatSession,         \* chatSessionRef.current # null
  loop,                \* the activations of handleSendMessage
  effectPc,            \* position of the mount effect's loadModel
  detectionPipeline,   \* visionService: detectionPipeline # null
  isModelLoading,      \* visionService: isModelLoading
  sentTurns,           \* history: what chatSession.sendMessage was given
  capCalls,            \* history: calls of runDinoV3 / runOCR
  modelTurns,          \* history: the turns the model answered with
  nSubmits,            \* history: exchanges started
  nUploads,            \* history: files processed
  toolTurns,           \* history: model turns that carried tool requests
  budget,              \* the number of events the environment may produce
  last,                \* history: the continuation that ran last
  image,               \* drawBoundingBoxes: the <img> element's natural size
  canvas,              \* drawBoundingBoxes: the canvas element's size
  box,                 \* drawBoundingBoxes: the element of `boxes`
  strokes,             \* drawBoundingBoxes: the rectangles on the canvas
  callers,             \* visionService: the calls in flight, by caller
  loads,               \* history: the model loads started and finished
  pool,                \* visionService: the argument bags callers pass
  worker,              \* ocrService: the Tesseract worker exists
  isInitializing,      \* ocrService
  ocrCalls,            \* ocrService: the runLocalOCR calls, by caller
  inits                \* history: the worker creations started and finished

drawVars == << image, canvas, box, strokes >>

visionVars == << callers, loads, pool >>

ocrVars == << worker, isInitializing, ocrCalls, inits >>

\* App.tsx's state and the histories of an exchange.
uiVars == << messages, toolLogs, isAnalyzing, currentImage, currentImageBase64,
          detections, modelStatus, chatSession, loop, effectPc,
          sentTurns, capCalls, modelTurns,
          nSubmits, nUploads, toolTurns, budget, last >>

\* visionService.ts's module variables.
serviceVars == << detectionPipeline, isModelLoading >>

appVars == << uiVars, serviceVars >>

vars == << appVars, drawVars, visionVars, ocrVars >>

Loops == 1..MaxLoops

\* The environment's events so far, which budget bounds.
Events == nSubmits + nUploads + toolTurns

\* null, for currentImage / currentImageBase64; images are 1, 2, ...
NoImage == 0

\* An absent FunctionResponse.id; the ids of function calls are 1, 2, ...
NoId == 0

\* ------------------------------------------------------------ data shapes
Sender == [User |-> "user", Model |-> "model", System |-> "system"]

Message(sender, text) == [sender |-> sender, text |-> text]

UserText == "hi"
TextUploaded == "Image uploaded"
TextUploadError == "Error processing image"
TextDownloading == "Downloading Detection Model"
TextAgentError == "Agent Error"

\* A FunctionCall of the model; id is its position in the turn (unique per
\* turn).  args is the argument bag: "undefined" is a call without args.
FunctionCall(id, name, args) == [id |-> id, name |-> name, args |-> args]

CallShapes ==
  { [name |-> "dino_v3_detect", args |-> "{}"],
    [name |-> "dino_v3_detect", args |-> "undefined"],
    [name |-> "ocr_engine", args |-> "{}"],
    [name |-> "zoom", args |-> "{}"] }

\* The capabilities the chat session declares (functionDeclarations).
RegisteredTools == {"dino_v3_detect", "ocr_engine"}

FunctionCallSeqs(n) ==
  { [i \in 1..n |-> FunctionCall(i, s[i].name, s[i].args)] :
      s \in [1..n -> CallShapes] }

\* What a model turn can be: tool requests (its text is never read), or a
\* final turn with or without text.
ToolReplies ==
  { [functionCalls |-> fcs, text |-> ""] :
      fcs \in UNION { FunctionCallSeqs(n) : n \in 1..MaxCalls } }

FinalReplies == { [functionCalls |-> << >>, text |-> t] : t \in {"", "answer"} }

\* toolResult values.  JS undefined (no branch assigned it) is shape
\* "undefined".
ResultNoImage == [shape |-> "error", backend |-> "none", count |-> 0]
ResultUndefined == [shape |-> "undefined", backend |-> "none", count |-> 0]
ResultDino(boxes) ==
  [shape |-> "success", backend |-> "Transformers.js", count |-> Len(boxes)]
ResultOCR(boxes) ==
  [shape |-> "success", backend |-> "Gemini Vision OCR", count |-> Len(boxes)]

\* JSON.stringify(fc.args): the JSON text of the bag; undefined for no bag.
StringifyArgs(args) == IF args = "undefined" THEN "undefined" ELSE args

\* JSON.stringify(toolResult): the JSON text, which holds the fields of the
\* result; undefined (no text) for an undefined result.
StringifyResult(r) ==
  IF r.shape = "undefined"
  THEN [defined |-> FALSE, shape |-> "undefined", count |-> 0]
  ELSE [defined |-> TRUE, shape |-> r.shape, count |-> r.count]

NoResult == [defined |-> FALSE, shape |-> "none", count |-> 0]

\* What the detector and the OCR capability return for an image.  The img
\* field is a history field: the image the box was computed from.
DetectorOutput(img) ==
  << [label |-> "cat", type |-> "object", coordinateUnit |-> "pixel",
      img |-> img] >>

OcrBlocks(img) ==
  << [label |-> "STOP", type |-> "text", coordinateUnit |-> "none",
      img |-> img] >>

IdleLoop ==
  [pc |-> "idle", x |-> 0, r |-> 0, m |-> 0, text |-> "", img |-> NoImage,
   b64 |-> NoImage, functionCalls |-> << >>, i |-> 0,
   functionResponses |-> << >>, newDetections |-> << >>, toolLogId |-> 0]

Step(op, l, n) == [op |-> op, l |-> l, n |-> n]

\* ------------------------------------------------------------------- Init
Start(b) ==
  /\ messages = << >>
  /\ toolLogs = << >>
  /\ isAnalyzing = FALSE
  /\ currentImage = NoImage
  /\ currentImageBase64 = NoImage
  /\ detections = << >>
  /\ modelStatus = "idle"
  /\ chatSession = FALSE
  /\ loop = [l \in Loops |-> IdleLoop]
  /\ effectPc = "init"
  /\ detectionPipeline = FALSE
  /\ isModelLoading = FALSE
  /\ sentTurns = << >>
  /\ capCalls = << >>
  /\ modelTurns = << >>
  /\ nSubmits = 0
  /\ nUploads = 0
  /\ toolTurns = 0
  /\ budget = b
  /\ last = Step("init", 0, 0)

\* The canvas before anything is drawn: an element of the default size,
\* over an <img> without a picture.
NoBox ==
  [xmin |-> 0, ymin |-> 0, xmax |-> 0, ymax |-> 0, coordinateUnit |-> "none",
   type |-> "none"]

BlankCanvas ==
  /\ image = [naturalWidth |-> 0, naturalHeight |-> 0]
  /\ canvas = [width |-> 300, height |-> 150]
  /\ box = NoBox
  /\ strokes = << >>

\* No call of visionService other than the app's own is in flight.
NoLoads == [started |-> 0, finished |-> 0, succeeded |-> 0]

NoCallers ==
  /\ callers = << >>
  /\ loads = NoLoads
  /\ pool = {}

\* ocrService's module state, and no call of runLocalOCR in flight.
NoInits == [started |-> 0, finished |-> 0, created |-> 0]

NoOcrCalls ==
  /\ worker = FALSE
  /\ isInitializing = FALSE
  /\ ocrCalls = << >>
  /\ inits = NoInits

Init == Start(MaxEvents) /\ BlankCanvas /\ NoCallers /\ NoOcrCalls

LiveInit == Start(MaxLiveEvents) /\ BlankCanvas /\ NoCallers /\ NoOcrCalls

\* ------------------------------------------------- handleSendMessage, pure
\* The part of the state one activation of handleSendMessage works on.
World(l) ==
  [messages |-> messages, toolLogs |-> toolLogs, isAnalyzing |-> isAnalyzing,
   detections |-> detections, detectionPipeline |-> detectionPipeline,
   isModelLoading |-> isModelLoading, sentTurns |-> sentTurns,
   capCalls |-> capCalls, active |-> currentImage, lp |-> loop[l]]

Commit(l, w) ==
  /\ messages' = w.messages
  /\ toolLogs' = w.toolLogs
  /\ isAnalyzing' = w.isAnalyzing
  /\ detections' = w.detections
  /\ detectionPipeline' = w.detectionPipeline
  /\ isModelLoading' = w.isModelLoading
  /\ sentTurns' = w.sentTurns
  /\ capCalls' = w.capCalls
  /\ loop' = [loop EXCEPT ![l] = w.lp]

\* Mutant of getModelStatus: without a pipeline the status is 'loading'.
getModelStatus_noIdle(pipeline, loading) ==
  IF pipeline THEN "ready" ELSE "loading"

getModelStatus(pipeline, loading) ==
  IF pipeline THEN "ready" ELSE IF loading THEN "loading" ELSE "idle"

\* Mutant of AddMessage: the new message is put first.
AddMessage_first(w, sender, text) ==
  [w EXCEPT !.messages = << Message(sender, text) >> \o @]

\* setMessages(prev => [...prev, message])
AddMessage(w, sender, text) ==
  [w EXCEPT !.messages = Append(@, Message(sender, text))]

\* Mutant of FirstMessage: the text alone, whatever the payload.
FirstMessage_textOnly(text, b64) == [text |-> text, inlineData |-> NoImage]

\* The first turn's message: `if (currentImageBase64)` the parts
\* [{inlineData}, {text}], else the text alone.
FirstMessage(text, b64) ==
  IF b64 # NoImage
  THEN [text |-> text, inlineData |-> b64]
  ELSE [text |-> text, inlineData |-> NoImage]

\* A follow-up turn's message holds the function responses only.
FollowUpMessage == [text |-> "", inlineData |-> NoImage]

\* Mutant of sendMessage: the turn is sent a second time.
sendMessage_twice(w, kind, message, results) ==
  LET turn == [x |-> w.lp.x, r |-> w.lp.r, kind |-> kind,
               text |-> message.text, image |-> message.inlineData,
               results |-> results, seen |-> w.detections]
  IN  [w EXCEPT !.sentTurns = @ \o << turn, turn >>]

\* chatSession.sendMessage(...): the turn handed to the model.  History
\* fields: kind, the exchange x / round r the turn belongs to, and seen, the
\* aggregated detection set as it was when the turn was sent.
sendMessage(w, kind, message, results) ==
  [w EXCEPT !.sentTurns =
     Append(@, [x |-> w.lp.x, r |-> w.lp.r, kind |-> kind,
                text |-> message.text, image |-> message.inlineData,
                results |-> results, seen |-> w.detections])]

\* Mutant of FinallyBlock: isAnalyzing is not reset.
FinallyBlock_keepBusy(w) ==
  [w EXCEPT !.lp = [IdleLoop EXCEPT !.x = w.lp.x, !.r = w.lp.r,
                                    !.m = w.lp.m]]

\* finally { setIsAnalyzing(false) }, and the activation is over.  Of its
\* record only the history fields stay: the exchange x, its rounds r and
\* the place m of its user message.
FinallyBlock(w) ==
  [w EXCEPT !.isAnalyzing = FALSE,
            !.lp = [IdleLoop EXCEPT !.x = w.lp.x, !.r = w.lp.r,
                                    !.m = w.lp.m]]

\* Mutant of CatchBlock: the error is swallowed, no error turn is recorded.
CatchBlock_swallow(w) == FinallyBlock(w)

\* catch (error) { setMessages(... "Agent Error: " ...) } finally {...}
CatchBlock(w) == FinallyBlock(AddMessage(w, Sender.System, TextAgentError))

\* Mutant of LoopCondition: the loop is entered for an empty request list.
LoopCondition_always(functionCalls) == Len(functionCalls) >= 0

\* while (functionCalls && functionCalls.length > 0)
LoopCondition(functionCalls) == Len(functionCalls) > 0

\* Mutant of NoImageContext: the missing image is not noticed.
NoImageContext_never(img) == FALSE

\* if (!currentImage)
NoImageContext(img) == img = NoImage

\* setToolLogs(prev => [...prev, {id, toolName, status: 'pending', args}])
\* History fields: the exchange x, round r and request (call) the entry is
\* for, and the image that was active when it was created.
PendingLog(w, fc) ==
  [id |-> Len(w.toolLogs) + 1, toolName |-> fc.name, status |-> "pending",
   args |-> StringifyArgs(fc.args), result |-> NoResult,
   x |-> w.lp.x, r |-> w.lp.r, call |-> fc.id, active |-> w.active]

\* setToolLogs(prev => prev.map(log => log.id === toolLogId ? {...} : log))
CompletedStatus(toolResult) == "success"

\* Mutant of CompleteLog: the id test is dropped, every entry is rewritten.
CompleteLog_all(logs, toolLogId, toolResult) ==
  [k \in DOMAIN logs |->
     [logs[k] EXCEPT !.status = CompletedStatus(toolResult),
                     !.result = StringifyResult(toolResult)]]

CompleteLog(logs, toolLogId, toolResult) ==
  [k \in DOMAIN logs |->
     IF logs[k].id = toolLogId
     THEN [logs[k] EXCEPT !.status = CompletedStatus(toolResult),
                          !.result = StringifyResult(toolResult)]
     ELSE logs[k]]

\* functionResponses.push({functionResponse: {name, response: {result}}})
\* The response names the tool; it carries no id (NoId).
FunctionResponse(fc, toolResult) ==
  [id |-> NoId, name |-> fc.name, result |-> toolResult]

\* Mutant of AppendDetections: the round's detections replace the set.
AppendDetections_replace(prev, newDetections) == newDetections

\* setDetections(prev => [...prev, ...newDetections])
AppendDetections(prev, newDetections) == prev \o newDetections

\* Mutant of EndRound: the follow-up turn is sent before setDetections.
EndRound_sendFirst(w) ==
  LET w1 == sendMessage(w, "followup", FollowUpMessage, w.lp.functionResponses)
      w2 == IF Len(w.lp.newDetections) > 0
            THEN [w1 EXCEPT !.detections =
                    AppendDetections(@, w.lp.newDetections)]
            ELSE w1
  IN [w2 EXCEPT !.lp.pc = "await_followup"]

\* After the for loop: setDetections, then sendMessage(functionResponses).
EndRound(w) ==
  LET w1 == IF Len(w.lp.newDetections) > 0
            THEN [w EXCEPT !.detections =
                    AppendDetections(@, w.lp.newDetections)]
            ELSE w
      w2 == sendMessage(w1, "followup", FollowUpMessage,
                        w.lp.functionResponses)
  IN [w2 EXCEPT !.lp.pc = "await_followup"]

\* runLocalDetection up to its first await: initVisionModel when the
\* pipeline is missing, else the inference call.
StartLocalDetection(w) ==
  IF w.detectionPipeline THEN [w EXCEPT !.lp.pc = "dino_infer"]
  ELSE IF w.isModelLoading THEN [w EXCEPT !.lp.pc = "dino_poll"]
  ELSE [w EXCEPT !.isModelLoading = TRUE, !.lp.pc = "dino_load"]

\* The dino_v3_detect branch up to `await runDinoV3(...)`.
StartDino(w, fc) ==
  LET w1 == IF getModelStatus(w.detectionPipeline, w.isModelLoading) # "ready"
            THEN AddMessage(w, Sender.System, TextDownloading)
            ELSE w
  IN IF fc.args = "undefined"
     THEN CatchBlock(w1)    \* TypeError: (undefined).target_objects
     ELSE StartLocalDetection(
            [w1 EXCEPT !.capCalls =
               Append(@, [tool |-> "runDinoV3", img |-> w.lp.img,
                          x |-> w.lp.x, r |-> w.lp.r, call |-> fc.id])])

\* The ocr_engine branch up to `await runOCR(...)`.
StartOCR(w, fc) ==
  [w EXCEPT !.capCalls =
      Append(@, [tool |-> "runOCR", img |-> w.lp.b64,
                 x |-> w.lp.x, r |-> w.lp.r, call |-> fc.id]),
            !.lp.pc = "ocr_wait"]

RECURSIVE ForLoop(_)

\* The tail of one iteration of `for (const fc of functionCalls)`.
CompleteCall(w, toolResult) ==
  LET fc == w.lp.functionCalls[w.lp.i]
  IN ForLoop([w EXCEPT
       !.toolLogs = CompleteLog(@, w.lp.toolLogId, toolResult),
       !.lp.functionResponses = Append(@, FunctionResponse(fc, toolResult)),
       !.lp.i = @ + 1])

\* `for (const fc of functionCalls)` from request i on, up to the next
\* await.
ForLoop(w) ==
  IF w.lp.i > Len(w.lp.functionCalls) THEN EndRound(w)
  ELSE LET fc == w.lp.functionCalls[w.lp.i]
           entry == PendingLog(w, fc)
           w1 == [w EXCEPT !.toolLogs = Append(@, entry),
                           !.lp.toolLogId = entry.id]
       IN IF NoImageContext(w.lp.img) THEN CompleteCall(w1, ResultNoImage)
          ELSE IF fc.name = "dino_v3_detect" THEN StartDino(w1, fc)
          ELSE IF fc.name = "ocr_engine"
               THEN IF w.lp.b64 # NoImage THEN StartOCR(w1, fc)
                    ELSE CompleteCall(w1, ResultUndefined)
          ELSE CompleteCall(w1, ResultUndefined)

\* `const boxes = await runDinoV3(...)` resumed with boxes.
DinoReturn(w, boxes) ==
  CompleteCall([w EXCEPT !.lp.newDetections = @ \o boxes], ResultDino(boxes))

\* `const boxes = await runOCR(...)` resumed with boxes.
OcrReturn(w, boxes) ==
  CompleteCall([w EXCEPT !.lp.newDetections = @ \o boxes], ResultOCR(boxes))

\* Mutant of FinalResponse: an agent turn is recorded for any final text.
FinalResponse_always(w, modelText) == AddMessage(w, Sender.Model, modelText)

\* `if (modelText) setMessages(prev => [...prev, {sender: Sender.Model, ...}])`
FinalResponse(w, modelText) ==
  IF modelText # "" THEN AddMessage(w, Sender.Model, modelText) ELSE w

\* `response = await sendMessage(...)` resumed with a response: the while
\* loop's test, then a round or the final response.
ContinueAfterReply(w, reply) ==
  IF LoopCondition(reply.functionCalls)
  THEN ForLoop([w EXCEPT !.lp.functionCalls = reply.functionCalls,
                         !.lp.functionResponses = << >>,
                         !.lp.newDetections = << >>,
                         !.lp.i = 1,
                         !.lp.r = @ + 1])
  ELSE FinallyBlock(FinalResponse(w, reply.text))

\* runLocalDetection after the pipeline's output: the mapped results.  The
\* argument bags of CallShapes carry no target_objects, so targetObjects is
\* undefined and `if (targetObjects)` skips the filter.
runLocalDetectionResults(img, targetObjects) == DetectorOutput(img)

\* ---------------------------------------------------------------- actions
AppUnchanged ==
  UNCHANGED << currentImage, currentImageBase64, modelStatus, chatSession,
               effectPc, nUploads, budget, drawVars, visionVars,
               ocrVars >>

\* The least idle activation slot: the activation a call creates.
FreeLoop == CHOOSE l \in Loops :
              /\ loop[l].pc = "idle"
              /\ \A k \in Loops : loop[k].pc = "idle" => l <= k

\* Mutant of handleSubmitReturnsEarly: the form forgets the busy check.
handleSubmitReturnsEarly_noBusyCheck(input, analyzing) == input = ""

\* ChatArea.handleSubmit: `if (!input.trim() || isAnalyzing) return;`
handleSubmitReturnsEarly(input, analyzing) == input = "" \/ analyzing

\* Mutant of SessionMissing: the session is not looked at.
SessionMissing_never(session) == FALSE

\* `if (!chatSessionRef.current) return;`
SessionMissing(session) == ~session

\* handleSendMessage(text) up to its first await.
handleSendMessage(text) ==
  IF SessionMissing(chatSession)
  THEN /\ last' = Step("sendNoSession", 0, 1)
       /\ UNCHANGED << messages, toolLogs, isAnalyzing, detections,
                       detectionPipeline, isModelLoading, sentTurns, capCalls,
                       modelTurns, loop, nSubmits, toolTurns >>
       /\ AppUnchanged
  ELSE /\ Events < budget
       /\ \E k \in Loops : loop[k].pc = "idle"
       /\ LET l == FreeLoop
              w0 == World(l)
              w1 == [w0 EXCEPT
                       !.messages = Append(@, Message(Sender.User, text)),
                       !.isAnalyzing = TRUE,
                       !.lp = [IdleLoop EXCEPT !.pc = "await_first",
                                               !.x = nSubmits + 1,
                                               !.m = Len(messages) + 1,
                                               !.text = text,
                                               !.img = currentImage,
                                               !.b64 = currentImageBase64]]
              w2 == sendMessage(w1, "first",
                                FirstMessage(text, currentImageBase64), << >>)
          IN /\ Commit(l, w2)
             /\ last' = Step("send", l, 1)
       /\ nSubmits' = nSubmits + 1
       /\ UNCHANGED << toolTurns, modelTurns >>
       /\ AppUnchanged

\* The form's submit event.
handleSubmit ==
  \E input \in {"", UserText} :
    IF handleSubmitReturnsEarly(input, isAnalyzing)
    THEN /\ UNCHANGED << last, messages, toolLogs, isAnalyzing, detections,
                         detectionPipeline, isModelLoading, sentTurns,
                         capCalls, modelTurns, loop, nSubmits, toolTurns >>
         /\ AppUnchanged
    ELSE handleSendMessage(input)

\* History: the k-th turn the model answered exchange x with, its n tool
\* requests, its text and, when n > 0, the round r they make.
TurnsOf(x) == { j \in DOMAIN modelTurns : modelTurns[j].x = x }

ModelTurn(x, reply) ==
  [x |-> x, k |-> Cardinality(TurnsOf(x)) + 1,
   r |-> IF Len(reply.functionCalls) > 0
         THEN Cardinality({ j \in TurnsOf(x) : modelTurns[j].n > 0 }) + 1
         ELSE 0,
   n |-> Len(reply.functionCalls), text |-> reply.text]

\* sendMessage resolves: a turn of the model arrives.
ModelReply(l) ==
  /\ loop[l].pc \in {"await_first", "await_followup"}
  /\ \E reply \in ToolReplies \cup FinalReplies :
       /\ LoopCondition(reply.functionCalls) => Events < budget
       /\ Commit(l, ContinueAfterReply(World(l), reply))
       /\ toolTurns' = IF Len(reply.functionCalls) > 0 THEN toolTurns + 1
                       ELSE toolTurns
       /\ modelTurns' = Append(modelTurns, ModelTurn(loop[l].x, reply))
       /\ last' = Step("modelReply", l, Len(reply.functionCalls))
  /\ UNCHANGED nSubmits
  /\ AppUnchanged

\* sendMessage rejects: the transport failed.
ModelFail(l) ==
  /\ loop[l].pc \in {"await_first", "await_followup"}
  /\ Commit(l, CatchBlock(World(l)))
  /\ last' = Step("modelFail", l, 0)
  /\ UNCHANGED << nSubmits, toolTurns, modelTurns >>
  /\ AppUnchanged

\* initVisionModel (called by runLocalDetection): pipeline(...) resolves;
\* runLocalDetection goes on to the inference call.
LoopModelLoaded(l) ==
  /\ loop[l].pc = "dino_load"
  /\ Commit(l, [World(l) EXCEPT !.detectionPipeline = TRUE,
                                !.isModelLoading = FALSE,
                                !.lp.pc = "dino_infer"])
  /\ last' = Step("loopModelLoaded", l, 0)
  /\ UNCHANGED << nSubmits, toolTurns, modelTurns >>
  /\ AppUnchanged

\* initVisionModel (called by runLocalDetection): pipeline(...) rejects;
\* runLocalDetection throws, runDinoV3 catches and returns [].
LoopModelLoadFailed(l) ==
  /\ loop[l].pc = "dino_load"
  /\ Commit(l, DinoReturn([World(l) EXCEPT !.isModelLoading = FALSE], << >>))
  /\ last' = Step("loopModelLoadFailed", l, loop[l].i)
  /\ UNCHANGED << nSubmits, toolTurns, modelTurns >>
  /\ AppUnchanged

\* Mutant of PipelineMissing: the pipeline is called as it is.
PipelineMissing_never(pipeline) == FALSE

\* `if (!detectionPipeline) throw new Error("Model failed to initialize")`
PipelineMissing(pipeline) == ~pipeline

\* Mutant of PollReturns: the wait loop ends only once a pipeline exists.
PollReturns_onlyWhenLoaded(pipeline, loading) == pipeline

\* Mutant of PollReturns: the wait ends at its first tick.
PollReturns_firstTick(pipeline, loading) == TRUE

\* initVisionModel's wait loop after a timer tick: `if (detectionPipeline)
\* return`, else `while (isModelLoading)` is tested again.
PollReturns(pipeline, loading) == pipeline \/ ~loading

\* initVisionModel's wait loop observes the end of the other caller's
\* load: with a pipeline it returns and the inference is called; without
\* one runLocalDetection throws and runDinoV3 returns [] (history: n = 1
\* in last).
LoopPoll(l) ==
  /\ loop[l].pc = "dino_poll"
  /\ PollReturns(detectionPipeline, isModelLoading)
  /\ Commit(l, IF PipelineMissing(detectionPipeline)
               THEN DinoReturn(World(l), << >>)
               ELSE [World(l) EXCEPT !.lp.pc = "dino_infer"])
  /\ last' = Step("loopPoll", l,
                  IF PipelineMissing(detectionPipeline) THEN 1 ELSE 0)
  /\ UNCHANGED << nSubmits, toolTurns, modelTurns >>
  /\ AppUnchanged

\* detectionPipeline(url) resolves: runLocalDetection returns its results.
InferDone(l) ==
  /\ loop[l].pc = "dino_infer"
  /\ Commit(l, DinoReturn(World(l),
                          runLocalDetectionResults(loop[l].img, "undefined")))
  /\ last' = Step("inferDone", l, 0)
  /\ UNCHANGED << nSubmits, toolTurns, modelTurns >>
  /\ AppUnchanged

\* detectionPipeline(url) rejects: runDinoV3 catches and returns [].
InferFailed(l) ==
  /\ loop[l].pc = "dino_infer"
  /\ Commit(l, DinoReturn(World(l), << >>))
  /\ last' = Step("inferFailed", l, loop[l].i)
  /\ UNCHANGED << nSubmits, toolTurns, modelTurns >>
  /\ AppUnchanged

\* runOCR returns: generateContent resolved with text blocks, with no text,
\* or with text that is not JSON.
OcrDone(l) ==
  /\ loop[l].pc = "ocr_wait"
  /\ \E outcome \in {"blocks", "noText", "badJson"} :
       /\ Commit(l, OcrReturn(World(l),
                    IF outcome = "blocks" THEN OcrBlocks(loop[l].b64)
                    ELSE << >>))
       /\ last' = Step("ocrDone", l, IF outcome = "blocks" THEN 1 ELSE 0)
  /\ UNCHANGED << nSubmits, toolTurns, modelTurns >>
  /\ AppUnchanged

\* runOCR throws: generateContent rejected (it is outside runOCR's try).
OcrFailed(l) ==
  /\ loop[l].pc = "ocr_wait"
  /\ Commit(l, CatchBlock(World(l)))
  /\ last' = Step("ocrFailed", l, loop[l].i)
  /\ UNCHANGED << nSubmits, toolTurns, modelTurns >>
  /\ AppUnchanged

LoopUnchanged ==
  UNCHANGED << toolLogs, isAnalyzing, loop, sentTurns, capCalls, modelTurns,
               nSubmits, toolTurns, budget, drawVars, visionVars,
               ocrVars >>

\* The mount effect: loadModel() up to its await inside initVisionModel,
\* then chatSessionRef.current = createChatSession(...).  No load can have
\* started before the effect (handleSendMessage returns early without a
\* chat session), so initVisionModel finds no pipeline and no load in
\* progress and starts the load itself.
Mount ==
  /\ effectPc = "init"
  /\ ~detectionPipeline /\ ~isModelLoading
  /\ modelStatus' = "loading"
  /\ isModelLoading' = TRUE
  /\ effectPc' = "loading"
  /\ chatSession' = TRUE
  /\ last' = Step("mount", 0, 0)
  /\ UNCHANGED << messages, currentImage, currentImageBase64, detections,
                  detectionPipeline, nUploads >>
  /\ LoopUnchanged

\* The effect's pipeline(...) resolves: initVisionModel returns and
\* loadModel sets modelStatus 'ready'.
EffectModelLoaded ==
  /\ effectPc = "loading"
  /\ detectionPipeline' = TRUE
  /\ isModelLoading' = FALSE
  /\ modelStatus' = "ready"
  /\ effectPc' = "done"
  /\ last' = Step("effectModelLoaded", 0, 0)
  /\ UNCHANGED << messages, currentImage, currentImageBase64, detections,
                  chatSession, nUploads >>
  /\ LoopUnchanged

\* The effect's pipeline(...) rejects: initVisionModel rethrows, loadModel's
\* promise is rejected and modelStatus stays 'loading'.
EffectModelLoadFailed ==
  /\ effectPc = "loading"
  /\ isModelLoading' = FALSE
  /\ effectPc' = "failed"
  /\ last' = Step("effectModelLoadFailed", 0, 0)
  /\ UNCHANGED << messages, currentImage, currentImageBase64, detections,
                  modelStatus, chatSession, detectionPipeline, nUploads >>
  /\ LoopUnchanged

\* Mutant of DetectionsAfterUpload: the upload keeps the old detections.
DetectionsAfterUpload_keep(prev) == prev

\* setDetections([]) of handleImageUpload.
DetectionsAfterUpload(prev) == << >>

\* ChatArea.handleFileChange -> handleImageUpload(file).  The code before
\* `await processImage(file)` reads and writes no state, so the handler is
\* modelled from the resumption on.  processImage resolved: the try block.
\* The file's object URL and payload are those of a fresh image.
\* Mutant of Base64Of: the payload is not set with the image.
Base64Of_null(img) == NoImage

\* `setCurrentImageBase64({ data: base64, mime: mimeType })`: the payload
\* of a picture is named by the picture.
Base64Of(img) == img

UploadDone ==
  /\ Events < budget
  /\ nUploads' = nUploads + 1
  /\ currentImage' = nUploads + 1
  /\ currentImageBase64' = Base64Of(nUploads + 1)
  /\ detections' = DetectionsAfterUpload(detections)
  /\ messages' = Append(messages, Message(Sender.System, TextUploaded))
  /\ last' = Step("uploadDone", 0, Len(detections))
  /\ UNCHANGED << modelStatus, chatSession, effectPc, detectionPipeline,
                  isModelLoading >>
  /\ LoopUnchanged

\* Mutant of UploadErrorMessages: the failure is not reported.
UploadErrorMessages_silent(prev) == prev

\* `setMessages(prev => [...prev, {sender: Sender.System, text: `Error
\* processing image: ...`}])`
UploadErrorMessages(prev) ==
  Append(prev, Message(Sender.System, TextUploadError))

\* processImage rejected: the catch block of handleImageUpload.
UploadFailed ==
  /\ Events < budget
  /\ nUploads' = nUploads + 1
  /\ messages' = UploadErrorMessages(messages)
  /\ last' = Step("uploadFailed", 0, 0)
  /\ UNCHANGED << currentImage, currentImageBase64, detections,
                  modelStatus, chatSession, effectPc, detectionPipeline,
                  isModelLoading >>
  /\ LoopUnchanged

Next ==
  \/ Mount
  \/ EffectModelLoaded
  \/ EffectModelLoadFailed
  \/ handleSubmit
  \/ UploadDone
  \/ UploadFailed
  \/ \E l \in Loops : ModelReply(l)
  \/ \E l \in Loops : ModelFail(l)
  \/ \E l \in Loops : LoopModelLoaded(l)
  \/ \E l \in Loops : LoopModelLoadFailed(l)
  \/ \E l \in Loops : LoopPoll(l)
  \/ \E l \in Loops : InferDone(l)
  \/ \E l \in Loops : InferFailed(l)
  \/ \E l \in Loops : OcrDone(l)
  \/ \E l \in Loops : OcrFailed(l)

Spec == Init /\ [][Next]_vars

\* Every pending promise settles: a model call and a capability call
\* (model load, inference, OCR request) each eventually return or throw,
\* and the wait loop of initVisionModel gets its next timer tick.  The model
\* stops asking for tools because the run's events are bounded (budget).
Settles ==
  /\ WF_vars(EffectModelLoaded \/ EffectModelLoadFailed)
  /\ \A l \in Loops :
       /\ WF_vars(ModelReply(l) \/ ModelFail(l))
       /\ WF_vars(LoopModelLoaded(l) \/ LoopModelLoadFailed(l))
       /\ WF_vars(LoopPoll(l))
       /\ WF_vars(InferDone(l) \/ InferFailed(l))
       /\ WF_vars(OcrDone(l) \/ OcrFailed(l))

LiveSpec == LiveInit /\ [][Next]_vars /\ Settles

\* ------------------------------------------------------- drawBoundingBoxes
\* Coordinates are JavaScript numbers.  A coordinate of a box is counted in
\* tenths (Tenths to the unit), so that 0.5 and 1.1 are exact.  What is
\* drawn is a rectangle of fractions: x / den, y / den, w / den, h / den
\* pixels, so that the division by the scale is exact.
Tenths == 10

\* `const scale = isNormalized ? 1 : 1000`
NormalizedScale == 1000

\* `box.ymax <= 1.1 && box.xmax <= 1.1`: 1.1, in tenths.
NormalizedLimit == 11

\* Mutant of isNormalized: a coordinate of exactly 1.0 is no longer small.
isNormalized_strict(b) == b.ymax < Tenths /\ b.xmax < Tenths

\* Mutant of isNormalized: only the x axis is looked at.
isNormalized_xOnly(b) == b.xmax <= NormalizedLimit

isNormalized(b) == b.ymax <= NormalizedLimit /\ b.xmax <= NormalizedLimit

\* Mutant of ScaleOf: the scale is 1 whatever the box.
ScaleOf_one(b) == 1

ScaleOf(b) == IF isNormalized(b) THEN 1 ELSE NormalizedScale

\* Mutant of toRect: the declared unit is not looked at.
toRect_undeclared(b, cv) ==
  [x |-> b.xmin * cv.width, y |-> b.ymin * cv.height,
   w |-> (b.xmax - b.xmin) * cv.width,
   h |-> (b.ymax - b.ymin) * cv.height,
   den |-> Tenths * ScaleOf(b)]

\* The x, y, w, h that the body of boxes.forEach hands to ctx.rect.
toRect(b, cv) ==
  IF b.coordinateUnit = "pixel"
  THEN [x |-> b.xmin, y |-> b.ymin,
        w |-> b.xmax - b.xmin, h |-> b.ymax - b.ymin,
        den |-> Tenths]
  ELSE [x |-> b.xmin * cv.width, y |-> b.ymin * cv.height,
        w |-> (b.xmax - b.xmin) * cv.width,
        h |-> (b.ymax - b.ymin) * cv.height,
        den |-> Tenths * ScaleOf(b)]

\* The inputs: pictures, and boxes as a capability can return them (the
\* detector declares 'pixel', the OCR capability declares nothing).
Images ==
  { [naturalWidth |-> 1000, naturalHeight |-> 500],
    [naturalWidth |-> 800, naturalHeight |-> 600] }

\* 0, 0.5, 1.0, 1.1, 1.2, 500 and 1200, in tenths.
Coords == {0, 5, 10, 11, 12, 5000, 12000}

Boxes ==
  [xmin : Coords, ymin : Coords, xmax : Coords, ymax : Coords,
   coordinateUnit : {"pixel", "none"}, type : {"object", "text"}]

DrawInit ==
  /\ Start(MaxEvents)
  /\ image \in Images
  /\ canvas = [width |-> 300, height |-> 150]
  /\ box \in Boxes
  /\ strokes = << >>
  /\ NoCallers
  /\ NoOcrCalls

\* drawBoundingBoxes(canvas, image, boxes).  boxes.forEach handles each
\* element on its own (only the colour of an object box depends on its
\* index), so the call is modelled for an array of one element, box.
drawBoundingBoxes ==
  /\ \E ctx \in BOOLEAN :
       IF ~ctx
       THEN UNCHANGED << canvas, strokes >>
       ELSE /\ canvas' = [width |-> image.naturalWidth,
                          height |-> image.naturalHeight]
            /\ strokes' = << toRect(box, canvas') >>
  /\ UNCHANGED << image, box, appVars, visionVars, ocrVars >>

\* ImageViewer's effect without detections: ctx.clearRect over the canvas.
clearCanvas ==
  /\ strokes' = << >>
  /\ UNCHANGED << image, canvas, box, appVars, visionVars, ocrVars >>

DrawNext == drawBoundingBoxes \/ clearCanvas

DrawSpec == DrawInit /\ [][DrawNext]_vars

\* ----------------------------------------------------------- visionService
\* initVisionModel and runLocalDetection called concurrently, each caller
\* calling once.  A JavaScript string is a sequence of one-character
\* strings, so that toLowerCase, split, trim and includes are computed.
MaxCallers == 3

MaxFilterCallers == 2

Lower(ch) ==
  CASE ch = "C" -> "c"
    [] ch = "A" -> "a"
    [] ch = "T" -> "t"
    [] ch = "D" -> "d"
    [] ch = "O" -> "o"
    [] ch = "G" -> "g"
    [] OTHER -> ch

toLowerCase(s) == [i \in 1..Len(s) |-> Lower(s[i])]

\* The index of the first ch in s, 0 when there is none.
IndexOf(s, ch) ==
  IF \E i \in 1..Len(s) : s[i] = ch
  THEN CHOOSE i \in 1..Len(s) :
         s[i] = ch /\ \A j \in 1..(i - 1) : s[j] # ch
  ELSE 0

\* s.split(sep): ''.split(',') is [''].
RECURSIVE split(_, _)
split(s, sep) ==
  LET i == IndexOf(s, sep)
  IN  IF i = 0
      THEN << s >>
      ELSE << SubSeq(s, 1, i - 1) >> \o split(SubSeq(s, i + 1, Len(s)), sep)

RECURSIVE trim(_)
trim(s) ==
  IF s # << >> /\ Head(s) = " " THEN trim(Tail(s))
  ELSE IF s # << >> /\ s[Len(s)] = " " THEN trim(SubSeq(s, 1, Len(s) - 1))
  ELSE s

\* s.includes(t): the empty string is included in every string.
includes(s, t) ==
  \E i \in 0..(Len(s) - Len(t)) : SubSeq(s, i + 1, i + Len(t)) = t

\* The values a model can put under target_objects: nothing, a string, or
\* (against the declared schema) an array of strings.
Undefined == [t |-> "undefined", s |-> << >>]

Str(s) == [t |-> "string", s |-> s]

ArrayOf(s) == [t |-> "array", s |-> s]

\* `if (targetObjects)`
Truthy(v) == v.t = "array" \/ (v.t = "string" /\ v.s # << >>)

\* targetObjects.toLowerCase is not a function: a TypeError.
FilterThrows(targetObjects) ==
  Truthy(targetObjects) /\ targetObjects.t # "string"

\* `targetObjects.toLowerCase().split(',').map(s => s.trim())`
Targets(targetObjects) ==
  LET parts == split(toLowerCase(targetObjects.s), ",")
  IN  [i \in 1..Len(parts) |-> trim(parts[i])]

\* `targets.some(t => r.label.toLowerCase().includes(t))`
Matches(r, targets) ==
  \E i \in 1..Len(targets) : includes(toLowerCase(r.label), targets[i])

\* `output.map(obj => ({ label: obj.label, ..., type: 'object',
\* coordinateUnit: 'pixel' }))`
mapResults(output) ==
  [i \in 1..Len(output) |->
     [label |-> output[i].label, box |-> output[i].box,
      type |-> "object", coordinateUnit |-> "pixel"]]

\* Mutant of filterResults: what matches is returned, be it nothing.
filterResults_noFallback(results, targetObjects) ==
  IF ~Truthy(targetObjects) THEN results
  ELSE LET targets == Targets(targetObjects)
           Keep(r) == Matches(r, targets)
       IN  IF Len(targets) > 0 /\ targets[1] # << >>
           THEN SelectSeq(results, Keep)
           ELSE results

\* The filter of runLocalDetection, for a targetObjects that does not throw.
filterResults(results, targetObjects) ==
  IF ~Truthy(targetObjects) THEN results
  ELSE LET targets == Targets(targetObjects)
           Keep(r) == Matches(r, targets)
           filtered == SelectSeq(results, Keep)
       IN  IF Len(targets) > 0 /\ targets[1] # << >> /\ filtered # << >>
           THEN filtered
           ELSE results

\* fc.args: no bag at all, or a bag with target_objects in it or not.
NoBag == [bag |-> FALSE, target_objects |-> Undefined]

Bag(v) == [bag |-> TRUE, target_objects |-> v]

\* What the detection pipeline can output, the box being a rectangle's name.
PipelineOutputs ==
  { << >>,
    << [label |-> << "c", "a", "t" >>, box |-> 1] >>,
    << [label |-> << "C", "a", "t" >>, box |-> 1],
       [label |-> << "d", "o", "g" >>, box |-> 2] >> }

\* "", " ", ",", "cat", "Cat", " cat ,dog", "cat,", ",dog", "tag".
TargetStrings ==
  { << >>, << " " >>, << "," >>, << "c", "a", "t" >>, << "C", "a", "t" >>,
    << " ", "c", "a", "t", " ", ",", "d", "o", "g" >>,
    << "c", "a", "t", "," >>, << ",", "d", "o", "g" >>,
    << "t", "a", "g" >> }

ArgBags ==
  {NoBag, Bag(Undefined), Bag(ArrayOf(<< "c", "a", "t" >>))}
    \cup {Bag(Str(s)) : s \in TargetStrings}

IdleCaller ==
  [pc |-> "idle", kind |-> "none", args |-> NoBag, saw |-> 0,
   inner |-> "none", output |-> << >>, boxes |-> << >>, outcome |-> "none"]

Callers == 1..MaxCallers

\* Caller c exists in this run and has not called yet.
Idle(c) == c \in DOMAIN callers /\ callers[c].pc = "idle"

\* Caller c's call is suspended at the await named pc.
At(c, pc) == c \in DOMAIN callers /\ callers[c].pc = pc

\* Concurrent callers of the lifecycle, passing no filter or "cat".
VisionInit ==
  /\ Start(MaxEvents)
  /\ BlankCanvas
  /\ NoOcrCalls
  /\ callers = [c \in 1..MaxCallers |-> IdleCaller]
  /\ loads = NoLoads
  /\ pool = {Bag(Undefined), Bag(Str(<< "c", "a", "t" >>))}

\* Callers of the detection tool, passing every argument bag.
FilterInit ==
  /\ Start(MaxEvents)
  /\ BlankCanvas
  /\ NoOcrCalls
  /\ callers = [c \in 1..MaxFilterCallers |-> IdleCaller]
  /\ loads = NoLoads
  /\ pool = ArgBags

Become(c, rec) == callers' = [callers EXCEPT ![c] = rec]

\* initVisionModel has returned to caller rec: initVisionModel's own caller
\* is done; runLocalDetection goes on to `if (!detectionPipeline) throw`,
\* which runDinoV3 catches, or to the inference.
InitReturned(rec, pipeline) ==
  IF rec.kind = "initVisionModel"
  THEN [rec EXCEPT !.pc = "done", !.outcome = "returned"]
  ELSE IF PipelineMissing(pipeline)
       THEN [rec EXCEPT !.pc = "done", !.inner = "initError",
                        !.outcome = "returned"]
       ELSE [rec EXCEPT !.pc = "infer"]

\* initVisionModel has thrown: runLocalDetection rethrows, runDinoV3
\* catches and returns [].
InitThrew(rec) ==
  IF rec.kind = "initVisionModel"
  THEN [rec EXCEPT !.pc = "done", !.outcome = "threw"]
  ELSE [rec EXCEPT !.pc = "done", !.inner = "initError",
                   !.outcome = "returned"]

\* initVisionModel up to its first await, for the caller rec.
EnterInit(c, rec) ==
  IF detectionPipeline
  THEN /\ Become(c, InitReturned(rec, TRUE))
       /\ UNCHANGED << serviceVars, loads >>
  ELSE IF isModelLoading
  THEN /\ Become(c, [rec EXCEPT !.pc = "wait", !.saw = loads.started])
       /\ UNCHANGED << serviceVars, loads >>
  ELSE /\ isModelLoading' = TRUE
       /\ loads' = [loads EXCEPT !.started = @ + 1]
       /\ Become(c, [rec EXCEPT !.pc = "load"])
       /\ UNCHANGED detectionPipeline

VisionUnchanged == UNCHANGED << uiVars, drawVars, pool, ocrVars >>

CallInitVisionModel(c) ==
  /\ Idle(c)
  /\ EnterInit(c, [callers[c] EXCEPT !.kind = "initVisionModel"])
  /\ VisionUnchanged

\* The dino_v3_detect branch from `(fc.args as any).target_objects` on:
\* a TypeError without a bag, else runDinoV3 and runLocalDetection up to
\* its first await.
CallDino(c) ==
  /\ Idle(c)
  /\ \E a \in pool :
       LET rec == [callers[c] EXCEPT !.kind = "dino", !.args = a]
       IN  IF ~a.bag
           THEN /\ Become(c, [rec EXCEPT !.pc = "done",
                                         !.outcome = "aborted"])
                /\ UNCHANGED << serviceVars, loads >>
           ELSE IF detectionPipeline
           THEN /\ Become(c, [rec EXCEPT !.pc = "infer"])
                /\ UNCHANGED << serviceVars, loads >>
           ELSE EnterInit(c, rec)
  /\ VisionUnchanged

\* `detectionPipeline = await pipeline(...)` resolved, then `finally`.
LoadResolved(c) ==
  /\ At(c, "load")
  /\ detectionPipeline' = TRUE
  /\ isModelLoading' = FALSE
  /\ loads' = [loads EXCEPT !.finished = @ + 1, !.succeeded = @ + 1]
  /\ Become(c, InitReturned(callers[c], TRUE))
  /\ VisionUnchanged

\* pipeline(...) rejected: `throw err`, then `finally`.
LoadRejected(c) ==
  /\ At(c, "load")
  /\ isModelLoading' = FALSE
  /\ loads' = [loads EXCEPT !.finished = @ + 1]
  /\ Become(c, InitThrew(callers[c]))
  /\ UNCHANGED detectionPipeline
  /\ VisionUnchanged

\* A 100 ms tick of the waiting loop that ends the wait.
PollTick(c) ==
  /\ At(c, "wait")
  /\ PollReturns(detectionPipeline, isModelLoading)
  /\ Become(c, InitReturned(callers[c], detectionPipeline))
  /\ UNCHANGED << serviceVars, loads >>
  /\ VisionUnchanged

\* `await detectionPipeline(url, ...)` resolved: map, filter, return.
InferResolved(c) ==
  /\ At(c, "infer")
  /\ \E out \in PipelineOutputs :
       LET t == callers[c].args.target_objects
       IN  IF FilterThrows(t)
           THEN Become(c, [callers[c] EXCEPT
                             !.pc = "done", !.output = out,
                             !.inner = "filterError",
                             !.outcome = "returned"])
           ELSE Become(c, [callers[c] EXCEPT
                             !.pc = "done", !.output = out,
                             !.inner = "returned",
                             !.boxes = filterResults(mapResults(out), t),
                             !.outcome = "returned"])
  /\ UNCHANGED << serviceVars, loads >>
  /\ VisionUnchanged

\* The inference rejected: runDinoV3 catches and returns [].
InferRejected(c) ==
  /\ At(c, "infer")
  /\ Become(c, [callers[c] EXCEPT !.pc = "done", !.inner = "inferError",
                                  !.outcome = "returned"])
  /\ UNCHANGED << serviceVars, loads >>
  /\ VisionUnchanged

VisionNext ==
  \E c \in Callers :
    \/ CallInitVisionModel(c)
    \/ CallDino(c)
    \/ LoadResolved(c)
    \/ LoadRejected(c)
    \/ PollTick(c)
    \/ InferResolved(c)
    \/ InferRejected(c)

VisionSpec == VisionInit /\ [][VisionNext]_vars

FilterSpec == FilterInit /\ [][VisionNext]_vars

\* -------------------------------------------------------------- ocrService
\* runLocalOCR called concurrently, each caller calling once.  The bundle
\* has Tesseract.createWorker, so initOCR reaches `await createWorker`.
MaxOcrCallers == 3

OcrCallers == 1..MaxOcrCallers

IdleOcrCall == [pc |-> "idle", saw |-> 0, result |-> "none", boxes |-> << >>]

\* ret.data.words mapped to boxes of type 'text' in pixels.
OcrWords ==
  { << >>,
    << [label |-> "STOP", type |-> "text", coordinateUnit |-> "pixel"] >> }

OcrInit ==
  /\ Start(MaxEvents)
  /\ BlankCanvas
  /\ NoCallers
  /\ worker = FALSE
  /\ isInitializing = FALSE
  /\ ocrCalls = [c \in OcrCallers |-> IdleOcrCall]
  /\ inits = NoInits

OcrUnchanged == UNCHANGED << appVars, drawVars, visionVars >>

\* runLocalOCR up to its first real await.  With a worker it calls
\* worker.recognize.  Without one it awaits initOCR, which returns at once
\* when another call is initialising (saw: the creation in progress); the
\* continuation of that settled promise runs before any other task, finds
\* no worker and returns [].  Else initOCR goes on to `await
\* createWorker('eng')`.
CallOCR(c) ==
  /\ ocrCalls[c].pc = "idle"
  /\ IF worker
     THEN /\ ocrCalls' = [ocrCalls EXCEPT ![c].pc = "recognize"]
          /\ UNCHANGED << worker, isInitializing, inits >>
     ELSE IF isInitializing
     THEN /\ ocrCalls' = [ocrCalls EXCEPT ![c].pc = "done",
                                           ![c].saw = inits.started,
                                           ![c].result = "notReady"]
          /\ UNCHANGED << worker, isInitializing, inits >>
     ELSE /\ isInitializing' = TRUE
          /\ inits' = [inits EXCEPT !.started = @ + 1]
          /\ ocrCalls' = [ocrCalls EXCEPT ![c].pc = "create"]
          /\ UNCHANGED worker
  /\ OcrUnchanged

\* createWorker resolved: `worker = w`, finally, and runLocalOCR goes on to
\* worker.recognize.
CreateResolved(c) ==
  /\ ocrCalls[c].pc = "create"
  /\ worker' = TRUE
  /\ isInitializing' = FALSE
  /\ inits' = [inits EXCEPT !.finished = @ + 1, !.created = @ + 1]
  /\ ocrCalls' = [ocrCalls EXCEPT ![c].pc = "recognize"]
  /\ OcrUnchanged

\* createWorker rejected: the catch logs, finally, and runLocalOCR finds no
\* worker and returns [].
CreateRejected(c) ==
  /\ ocrCalls[c].pc = "create"
  /\ isInitializing' = FALSE
  /\ inits' = [inits EXCEPT !.finished = @ + 1]
  /\ ocrCalls' = [ocrCalls EXCEPT ![c].pc = "done",
                                  ![c].result = "notReady"]
  /\ UNCHANGED worker
  /\ OcrUnchanged

\* worker.recognize resolved: the words mapped to boxes.
RecognizeResolved(c) ==
  /\ ocrCalls[c].pc = "recognize"
  /\ \E words \in OcrWords :
       ocrCalls' = [ocrCalls EXCEPT ![c].pc = "done",
                                    ![c].result = "recognized",
                                    ![c].boxes = words]
  /\ UNCHANGED << worker, isInitializing, inits >>
  /\ OcrUnchanged

\* worker.recognize rejected: the catch returns [].
RecognizeRejected(c) ==
  /\ ocrCalls[c].pc = "recognize"
  /\ ocrCalls' = [ocrCalls EXCEPT ![c].pc = "done",
                                  ![c].result = "failed"]
  /\ UNCHANGED << worker, isInitializing, inits >>
  /\ OcrUnchanged

OcrNext ==
  \E c \in OcrCallers :
    \/ CallOCR(c)
    \/ CreateResolved(c)
    \/ CreateRejected(c)
    \/ RecognizeResolved(c)
    \/ RecognizeRejected(c)

OcrSpec == OcrInit /\ [][OcrNext]_vars

\* ------------------------------------------------------- claim vocabulary
InFlight(l) == loop[l].pc # "idle"

Dispatching(l) ==
  loop[l].pc \in {"dino_load", "dino_poll", "dino_infer", "ocr_wait"}

\* Round r of exchange x is still dispatching its requests.
RoundOpen(x, r) ==
  \E l \in Loops : Dispatching(l) /\ loop[l].x = x /\ loop[l].r = r

LogsOf(x, r) ==
  { j \in DOMAIN toolLogs : toolLogs[j].x = x /\ toolLogs[j].r = r }

FollowUpsOf(x, r) ==
  { j \in DOMAIN sentTurns :
      /\ sentTurns[j].kind = "followup"
      /\ sentTurns[j].x = x
      /\ sentTurns[j].r = r }

SentOf(x) == { j \in DOMAIN sentTurns : sentTurns[j].x = x }

CapCallsOf(x) == { j \in DOMAIN capCalls : capCalls[j].x = x }

\* The conversation state an activation is in.
Phase(lp) ==
  IF lp.pc = "idle" THEN "Idle"
  ELSE IF lp.pc \in {"await_first", "await_followup"} THEN "AwaitingModelTurn"
  ELSE "DispatchingTools"

\* ------------------------------------------------------------------ claims

\* C1 (stated as claimed; the code violates it): every detection of the
\* aggregated set was computed from the image that is active now.
C1_NoStaleDetection ==
  \A k \in DOMAIN detections : detections[k].img = currentImage

\* C2 (stated as claimed; the code violates it): a model turn with N >= 1
\* tool requests gets, once its round is over, exactly N ledger entries and
\* exactly one follow-up turn, which carries N results; while the round is
\* open no follow-up for it has been sent.
C2_OneFollowUpWithAllResults ==
  \A k \in DOMAIN modelTurns :
    LET t == modelTurns[k] IN
    t.n >= 1 =>
      IF RoundOpen(t.x, t.r)
      THEN FollowUpsOf(t.x, t.r) = {}
      ELSE /\ Cardinality(LogsOf(t.x, t.r)) = t.n
           /\ Cardinality(FollowUpsOf(t.x, t.r)) = 1
           /\ \A j \in FollowUpsOf(t.x, t.r) : Len(sentTurns[j].results) = t.n

\* C3 (stated as claimed; the code violates it): right after a capability
\* call has failed the exchange is still in flight and the failing
\* request's result is error-shaped.
C3_CapabilityFailureContained ==
  last.op \in {"ocrFailed", "inferFailed", "loopModelLoadFailed"} =>
    /\ InFlight(last.l)
    /\ Len(loop[last.l].functionResponses) >= last.n
    /\ loop[last.l].functionResponses[last.n].result.shape = "error"

\* C4 (stated as claimed; the code violates it): a ledger entry has status
\* success only when its result is a successful one; an entry whose result
\* is an error (or no result at all) does not have status success.
C4_StatusMatchesResult ==
  \A k \in DOMAIN toolLogs :
    toolLogs[k].status = "success" => toolLogs[k].result.shape = "success"

C6_ResultsMatchedById ==
  \A j \in DOMAIN sentTurns :
    sentTurns[j].kind = "followup" =>
      \A k \in DOMAIN modelTurns :
        (modelTurns[k].x = sentTurns[j].x /\ modelTurns[k].r = sentTurns[j].r)
        => \A id \in 1..modelTurns[k].n :
             Cardinality({ q \in DOMAIN sentTurns[j].results :
                             sentTurns[j].results[q].id = id }) = 1

\* C7: right after a successful image upload the aggregated detection set
\* is empty.
C7_UploadClearsDetections ==
  last.op = "uploadDone" => detections = << >>

\* C7 witness: an upload has just replaced an image that had detections.
C7_Witness == last.op = "uploadDone" /\ last.n > 0 /\ detections = << >>

\* C8: right after a model call has failed the activation is over and
\* isAnalyzing is false, the exchange has exactly one error turn and no
\* agent turn after its user turn, every model turn it sent was answered
\* except the failed one, and no ledger entry or capability call exists
\* beyond those of its answered rounds.
C8_ModelFailureAborts ==
  last.op = "modelFail" =>
    LET lp == loop[last.l] IN
    /\ lp.pc = "idle"
    /\ isAnalyzing = FALSE
    /\ messages[lp.m].sender = Sender.User
    /\ Cardinality({ k \in lp.m + 1 .. Len(messages) :
                       messages[k].text = TextAgentError }) = 1
    /\ \A k \in lp.m + 1 .. Len(messages) : messages[k].sender # Sender.Model
    /\ Cardinality(SentOf(lp.x)) = Cardinality(TurnsOf(lp.x)) + 1
    /\ \A j \in DOMAIN toolLogs :
         toolLogs[j].x = lp.x =>
           /\ toolLogs[j].status # "pending"
           /\ \E k \in TurnsOf(lp.x) :
                /\ modelTurns[k].r = toolLogs[j].r
                /\ toolLogs[j].call <= modelTurns[k].n

\* C8 witness: the failed call was a follow-up turn, after a tool round.
C8_Witness ==
  /\ last.op = "modelFail"
  /\ loop[last.l].r >= 1
  /\ \E j \in DOMAIN toolLogs : toolLogs[j].x = loop[last.l].x

\* C9: an exchange whose first model turn carried no tool request is over
\* after that one round trip: its activation is idle, it has sent one model
\* turn, created no ledger entry and called no capability; right after that
\* turn isAnalyzing is false.
C9_NoRequestsOneRoundTrip ==
  /\ \A k \in DOMAIN modelTurns :
       (modelTurns[k].k = 1 /\ modelTurns[k].n = 0) =>
         /\ \A l \in Loops : loop[l].x = modelTurns[k].x => ~InFlight(l)
         /\ Cardinality(SentOf(modelTurns[k].x)) = 1
         /\ \A j \in DOMAIN toolLogs : toolLogs[j].x # modelTurns[k].x
         /\ CapCallsOf(modelTurns[k].x) = {}
  /\ (last.op = "modelReply" /\ last.n = 0) => isAnalyzing = FALSE

\* C9 witness: the model has just answered a first turn with text only.
C9_Witness ==
  /\ last.op = "modelReply"
  /\ last.n = 0
  /\ Cardinality(TurnsOf(loop[last.l].x)) = 1
  /\ messages[Len(messages)].sender = Sender.Model

\* C10: a ledger entry created while no image was active has an
\* error-shaped result, its request caused no capability call, and the
\* round's follow-up turn, carrying that error result at the request's
\* place, has been sent.
C10_NoImageIsErrorResult ==
  \A j \in DOMAIN toolLogs :
    LET e == toolLogs[j] IN
    e.active = NoImage =>
      /\ e.result.shape = "error"
      /\ \A c \in DOMAIN capCalls :
           ~(capCalls[c].x = e.x /\ capCalls[c].r = e.r
             /\ capCalls[c].call = e.call)
      /\ \E f \in FollowUpsOf(e.x, e.r) :
           /\ Len(sentTurns[f].results) >= e.call
           /\ sentTurns[f].results[e.call].result = ResultNoImage
           /\ sentTurns[f].results[e.call].name = e.toolName

\* C10 witness: such an entry exists, for a detection request, and the
\* model has answered the follow-up turn that carried its error.
C10_Witness ==
  \E j \in DOMAIN toolLogs :
    /\ toolLogs[j].active = NoImage
    /\ toolLogs[j].toolName = "dino_v3_detect"
    /\ \E k \in TurnsOf(toolLogs[j].x) : modelTurns[k].k = 2

C12_ExchangeStateMachine ==
  /\ [][ \A l \in Loops :
           LET p == Phase(loop[l])
               q == Phase(loop'[l])
               failed == /\ Len(messages') > Len(messages)
                         /\ messages'[Len(messages')].text = TextAgentError
           IN /\ (p = "Idle" /\ loop'[l] # loop[l]) =>
                   /\ q = "AwaitingModelTurn"
                   /\ loop'[l].x = nSubmits + 1
                   /\ sentTurns'[Len(sentTurns')].kind = "first"
              /\ (p # "Idle" /\ q # "Idle") => loop'[l].x = loop[l].x
              /\ (p = "AwaitingModelTurn" /\ q = "Idle") =>
                   \/ failed
                   \/ /\ Len(modelTurns') = Len(modelTurns) + 1
                      /\ modelTurns'[Len(modelTurns')].n = 0
              /\ (p = "AwaitingModelTurn" /\ q # "Idle"
                  /\ loop'[l] # loop[l]) =>
                   /\ Len(modelTurns') = Len(modelTurns) + 1
                   /\ modelTurns'[Len(modelTurns')].n > 0
              /\ (p = "DispatchingTools" /\ q = "Idle") => failed
              /\ (p = "DispatchingTools" /\ q = "AwaitingModelTurn") =>
                   sentTurns'[Len(sentTurns')].kind = "followup"
              /\ (p # "Idle" /\ q = "Idle") => isAnalyzing' = FALSE ]_vars
  /\ \A l \in Loops : InFlight(l) ~> ~InFlight(l)
  /\ isAnalyzing ~> ~isAnalyzing

\* C12 witness: an exchange went through a tool round that had to wait for
\* a capability and is over, isAnalyzing false.
C12_Witness ==
  /\ isAnalyzing = FALSE
  /\ \A l \in Loops : ~InFlight(l)
  /\ \E c \in DOMAIN capCalls, k \in DOMAIN modelTurns :
       /\ modelTurns[k].x = capCalls[c].x
       /\ modelTurns[k].n = 0


\* C13 (stated as claimed; the code violates it): the code, not the model,
\* ends the tool loop: an exchange stops dispatching before it has
\* dispatched every tool-request turn the environment can produce (after
\* the exchange's own start, budget - 1 such turns).
C13_ToolLoopBounded ==
  \A l \in Loops : loop[l].r < budget - 1


\* The agent turns recorded after message m.
AgentTurnsAfter(m) ==
  { k \in m + 1 .. Len(messages) : messages[k].sender = Sender.Model }

\* C14 (as claimed; the code violates it): right after an exchange has
\* completed without failure it has exactly one agent turn.
C14_OneAgentTurn ==
  (last.op = "modelReply" /\ last.n = 0) =>
    Cardinality(AgentTurnsAfter(loop[last.l].m)) = 1

\* C14 (amended): right after an exchange has completed without failure,
\* its user turn is followed by exactly one agent turn when the model's
\* final text is not empty, and that turn is the newest message and holds
\* the final text; it is followed by no agent turn when the final text is
\* empty.  Every tool round of the exchange is over by then: none of its
\* ledger entries is pending and each round's follow-up turn has been sent.
C14_AgentTurnIffFinalText ==
  (last.op = "modelReply" /\ last.n = 0) =>
    LET lp == loop[last.l]
        t == modelTurns[Len(modelTurns)]
    IN /\ lp.pc = "idle"
       /\ messages[lp.m].sender = Sender.User
       /\ IF t.text # ""
          THEN /\ AgentTurnsAfter(lp.m) = {Len(messages)}
               /\ messages[Len(messages)].text = t.text
          ELSE AgentTurnsAfter(lp.m) = {}
       /\ \A j \in DOMAIN toolLogs :
            toolLogs[j].x = lp.x => toolLogs[j].status # "pending"
       /\ \A r \in 1..lp.r : Cardinality(FollowUpsOf(lp.x, r)) = 1

\* C14 witness: an exchange with a tool round has just completed with a
\* final text, recorded as the newest message.
C14_Witness ==
  /\ last.op = "modelReply"
  /\ last.n = 0
  /\ loop[last.l].r >= 1
  /\ modelTurns[Len(modelTurns)].text # ""
  /\ messages[Len(messages)].sender = Sender.Model


\* C15: the ids of the ledger's entries are distinct, and in every step the
\* ledger keeps its entries in place: none is removed or moved, none
\* changes its id, tool name or arguments, and an entry that changes at all
\* was pending before the step and is not pending after it.
C15_LedgerAppendOnly ==
  /\ [](\A j, k \in DOMAIN toolLogs :
          j # k => toolLogs[j].id # toolLogs[k].id)
  /\ [][ /\ Len(toolLogs') >= Len(toolLogs)
         /\ \A k \in DOMAIN toolLogs :
              /\ toolLogs'[k].id = toolLogs[k].id
              /\ toolLogs'[k].toolName = toolLogs[k].toolName
              /\ toolLogs'[k].args = toolLogs[k].args
              /\ toolLogs'[k] # toolLogs[k] =>
                   /\ toolLogs[k].status = "pending"
                   /\ toolLogs'[k].status # "pending" ]_vars

\* C15 witness: an entry that has left pending, with a result, is followed
\* by an entry that was completed after it with a different result.
C15_Witness ==
  \E j, k \in DOMAIN toolLogs :
    /\ j < k
    /\ toolLogs[j].status = "success"
    /\ toolLogs[k].status = "success"
    /\ toolLogs[j].result # toolLogs[k].result


\* C16 (stated as claimed; the code violates it): a pending ledger entry
\* belongs to an exchange that is still in flight; once its exchange is
\* over and the activation idle, no entry of it is pending.
C16_NoPendingAtIdle ==
  \A j \in DOMAIN toolLogs :
    toolLogs[j].status = "pending" =>
      \E l \in Loops : InFlight(l) /\ loop[l].x = toolLogs[j].x


\* The kinds of the boxes a round's results report, in request order: a
\* successful result of the detector reports `count` object boxes, one of
\* the OCR capability `count` text boxes.
RECURSIVE BoxTypes(_)
BoxTypes(responses) ==
  IF responses = << >> THEN << >>
  ELSE LET res == Head(responses).result
       IN (IF res.shape = "success"
           THEN [i \in 1..res.count |->
                   IF res.backend = "Transformers.js" THEN "object"
                   ELSE "text"]
           ELSE << >>) \o BoxTypes(Tail(responses))

\* C17: when a round's follow-up turn was sent, the aggregated detection
\* set ended with the boxes of the round's successful results, one box per
\* reported detection, in request order.
C17_DetectionsBeforeFollowUp ==
  \A j \in DOMAIN sentTurns :
    sentTurns[j].kind = "followup" =>
      LET types == BoxTypes(sentTurns[j].results)
          seen == sentTurns[j].seen
          n == Len(types)
      IN /\ Len(seen) >= n
         /\ \A i \in 1..n : seen[Len(seen) - n + i].type = types[i]

\* C17 witness: a follow-up turn was sent for a round in which the detector
\* and the OCR capability each returned a box.
C17_Witness ==
  \E j \in DOMAIN sentTurns :
    /\ sentTurns[j].kind = "followup"
    /\ BoxTypes(sentTurns[j].results) = << "object", "text" >>
    /\ Len(sentTurns[j].seen) >= 2


\* A follow-up turn is sent in this step.
FollowUpSent ==
  /\ Len(sentTurns') = Len(sentTurns) + 1
  /\ sentTurns'[Len(sentTurns')].kind = "followup"

\* C18: in a step that leaves the active image as it is, the aggregated
\* detection set changes only at the end of a round, and then it becomes
\* the old set followed by the round's detections, all of them, in request
\* order (nothing is removed, reordered or merged).
C18_DetectionsOnlyGrow ==
  [][ currentImage' = currentImage =>
        IF FollowUpSent
        THEN LET nd == loop'[last'.l].newDetections
             IN /\ detections' = detections \o nd
                /\ Len(nd) = Len(BoxTypes(loop'[last'.l].functionResponses))
                /\ \A i \in DOMAIN nd :
                     nd[i].type = BoxTypes(loop'[last'.l].functionResponses)[i]
        ELSE detections' = detections ]_vars

\* C18 witness: two invocations have returned the same box and the set
\* holds it twice.
C18_Witness ==
  /\ Len(capCalls) >= 2
  /\ \E i, j \in DOMAIN detections : i < j /\ detections[i] = detections[j]


\* A rectangle with an extent: positive width and height.
HasExtent(s) == s.w > 0 /\ s.h > 0

\* C19 (stated as claimed; the code violates it): every rectangle with an
\* extent that is on the canvas lies inside the picture:
\* 0 <= x, x + w <= width, 0 <= y, y + h <= height.
C19_RenderedInsideImage ==
  \A k \in DOMAIN strokes :
    HasExtent(strokes[k]) =>
      /\ 0 <= strokes[k].x
      /\ strokes[k].x + strokes[k].w <= canvas.width * strokes[k].den
      /\ 0 <= strokes[k].y
      /\ strokes[k].y + strokes[k].h <= canvas.height * strokes[k].den

\* C20 (stated as claimed; the code violates it): no degenerate rectangle
\* (w <= 0 or h <= 0 after conversion) is on the canvas.
C20_DegenerateDropped ==
  \A k \in DOMAIN strokes : HasExtent(strokes[k])


\* The box a rectangle on the canvas covers, as fractions over den.
Converted(s) ==
  [xmin |-> s.x, ymin |-> s.y, xmax |-> s.x + s.w, ymax |-> s.y + s.h,
   den |-> s.den]

\* The box has been drawn and is not declared as pixels.
DrawnUndeclared == strokes # << >> /\ box.coordinateUnit # "pixel"

\* The rectangle on the canvas is the box with every coordinate divided by
\* `scale` and multiplied by the image dimension of its axis.
ScaledBy(scale) ==
  LET c == Converted(strokes[1]) IN
  /\ c.den = Tenths * scale
  /\ c.xmin = box.xmin * image.naturalWidth
  /\ c.ymin = box.ymin * image.naturalHeight
  /\ c.xmax = box.xmax * image.naturalWidth
  /\ c.ymax = box.ymax * image.naturalHeight

\* The rectangle on the canvas covers the pixel box {xmin, ymin, xmax, ymax}.
CoversPixels(xmin, ymin, xmax, ymax) ==
  LET c == Converted(strokes[1]) IN
  /\ c.xmin = xmin * c.den
  /\ c.ymin = ymin * c.den
  /\ c.xmax = xmax * c.den
  /\ c.ymax = ymax * c.den

\* The box {0, 0, 500, 500} has been drawn, undeclared, on a 1000x500 image.
C21_Example ==
  /\ DrawnUndeclared
  /\ image = [naturalWidth |-> 1000, naturalHeight |-> 500]
  /\ box.xmin = 0 /\ box.ymin = 0
  /\ box.xmax = 500 * Tenths /\ box.ymax = 500 * Tenths

\* C21 (as claimed; the code violates it): an undeclared box with a
\* coordinate xmax or ymax above 1.1 is drawn with every coordinate divided
\* by 1000 and multiplied by the image dimension, and on a 1000x500 image
\* the box {0, 0, 500, 500} is drawn as {0, 0, 250, 250}.
C21_ThousandScaleAsClaimed ==
  /\ (DrawnUndeclared /\ ~isNormalized(box)) => ScaledBy(1000)
  /\ C21_Example => CoversPixels(0, 0, 250, 250)

\* C21 (amended): an undeclared box with a coordinate xmax or ymax above
\* 1.1 is drawn with every coordinate divided by 1000 and multiplied by the
\* image dimension of its axis, and on a 1000x500 image the box
\* {0, 0, 500, 500} is drawn as {0, 0, 500, 250}.
C21_ThousandScale ==
  /\ (DrawnUndeclared /\ ~isNormalized(box)) => ScaledBy(1000)
  /\ C21_Example => CoversPixels(0, 0, 500, 250)

\* C21 witness: the example box has been drawn.
C21_Witness == C21_Example /\ strokes[1].w > 0


\* Every coordinate of the box lies in [0, 1].
InUnitSquare(b) ==
  \A v \in {b.xmin, b.ymin, b.xmax, b.ymax} : 0 <= v /\ v <= Tenths

\* The box {0.5, 0.5, 1.0, 1.0} has been drawn, undeclared, on an 800x600
\* image.
C22_Example ==
  /\ DrawnUndeclared
  /\ image = [naturalWidth |-> 800, naturalHeight |-> 600]
  /\ 2 * box.xmin = Tenths /\ 2 * box.ymin = Tenths
  /\ box.xmax = Tenths /\ box.ymax = Tenths

\* C22: an undeclared box with every coordinate in [0, 1] is drawn with
\* every coordinate multiplied by the image dimension of its axis, and on
\* an 800x600 image the box {0.5, 0.5, 1.0, 1.0} is drawn as
\* {400, 300, 800, 600}.
C22_UnitScale ==
  /\ (DrawnUndeclared /\ InUnitSquare(box)) => ScaledBy(1)
  /\ C22_Example => CoversPixels(400, 300, 800, 600)

\* C22 witness: the example box has been drawn.
C22_Witness == C22_Example /\ strokes[1].w > 0 /\ strokes[1].h > 0


\* The converted box c (in tenths of a pixel) as a detection again, with
\* the declarations of b.
ReBox(b, c) ==
  [b EXCEPT !.xmin = c.xmin, !.ymin = c.ymin, !.xmax = c.xmax,
            !.ymax = c.ymax]

\* C23: a box declared as pixels is drawn where it is, whatever the image:
\* the rectangle covers the box's own coordinates, and converting the
\* converted box again gives the same rectangle.
C23_PixelPassThrough ==
  (strokes # << >> /\ box.coordinateUnit = "pixel") =>
    LET c == Converted(strokes[1]) IN
    /\ c.den = Tenths
    /\ c.xmin = box.xmin /\ c.ymin = box.ymin
    /\ c.xmax = box.xmax /\ c.ymax = box.ymax
    /\ toRect(ReBox(box, c), canvas) = strokes[1]

\* C23 witness: a pixel box with an extent and every coordinate at most 1
\* has been drawn.
C23_Witness ==
  /\ strokes # << >>
  /\ box.coordinateUnit = "pixel"
  /\ InUnitSquare(box)
  /\ strokes[1].w > 0 /\ strokes[1].h > 0


\* v is at most 1.1 (v is counted in tenths).
Small(v) == 10 * v <= 11 * Tenths

AsksNoFilter(a) ==
  \/ ~a.bag
  \/ a.target_objects.t # "string"
  \/ \A i \in 1..Len(a.target_objects.s) :
       a.target_objects.s[i] \in {" ", ","}

\* The inference of caller c's request gave an output.
HasOutput(c) == callers[c].inner \in {"returned", "filterError"}

\* C25: a detection request whose target_objects is missing, empty or
\* malformed never fails and, when the inference gave an output, returns
\* every detection of that output, as a request without a filter does.
C25_NoFilterNeverFails ==
  \A c \in DOMAIN callers :
    ( /\ callers[c].pc = "done"
      /\ callers[c].kind = "dino"
      /\ AsksNoFilter(callers[c].args) )
    => /\ callers[c].outcome = "returned"
       /\ HasOutput(c) => callers[c].boxes = mapResults(callers[c].output)

\* The model loads in progress: the calls suspended at `await pipeline(...)`.
LoadsInProgress ==
  Cardinality({c \in DOMAIN callers : callers[c].pc = "load"})

\* C26: under every interleaving of initVisionModel and runLocalDetection
\* calls the handle is uninitialized, initializing or ready, at most one
\* load is in progress, at most one load has succeeded, and a caller that
\* arrived during load number n has not left initVisionModel before load
\* number n finished.
C26_ModelLifecycle ==
  /\ ~(detectionPipeline /\ isModelLoading)
  /\ LoadsInProgress <= 1
  /\ LoadsInProgress = loads.started - loads.finished
  /\ isModelLoading <=> LoadsInProgress = 1
  /\ loads.succeeded <= 1
  /\ detectionPipeline <=> loads.succeeded = 1
  /\ \A c \in DOMAIN callers :
       (callers[c].saw > 0 /\ callers[c].pc # "wait")
       => loads.finished >= callers[c].saw

\* A caller waited on the first load, which failed, and came back after a
\* second load had succeeded.
C26_Witness ==
  /\ loads.started = 2
  /\ loads.succeeded = 1
  /\ \E c \in DOMAIN callers :
       callers[c].saw = 1 /\ callers[c].pc = "done"


\* C27: no model call and no capability call is made twice: the turns sent
\* to the model differ in exchange, round or kind, the capability calls
\* differ in exchange, round or request, each capability call is the call
\* of one ledger entry's request, and an exchange has at most one sent turn
\* more than the model has answered; so nothing is sent again after a
\* failure either.
C27_NothingRetried ==
  /\ \A j, k \in DOMAIN sentTurns :
       ( /\ sentTurns[j].x = sentTurns[k].x
         /\ sentTurns[j].r = sentTurns[k].r
         /\ sentTurns[j].kind = sentTurns[k].kind ) => j = k
  /\ \A j, k \in DOMAIN capCalls :
       ( /\ capCalls[j].x = capCalls[k].x
         /\ capCalls[j].r = capCalls[k].r
         /\ capCalls[j].call = capCalls[k].call ) => j = k
  /\ \A j \in DOMAIN capCalls :
       \E e \in LogsOf(capCalls[j].x, capCalls[j].r) :
         toolLogs[e].call = capCalls[j].call
  /\ \A j \in DOMAIN sentTurns :
       Cardinality(SentOf(sentTurns[j].x))
         <= Cardinality(TurnsOf(sentTurns[j].x)) + 1

\* A capability call has just failed in an exchange that had made it once,
\* after another exchange had ended with a failed model call.
C27_Witness ==
  /\ last.op \in {"inferFailed", "ocrFailed"}
  /\ capCalls # << >>
  /\ \E x \in 1..nSubmits :
       /\ Cardinality(SentOf(x)) = 1
       /\ TurnsOf(x) = {}
       /\ \A l \in Loops : loop[l].x = x => loop[l].pc = "idle"

\* C28: the first turn of an exchange carries the user's text, and carries
\* the payload of the active image exactly when an image is active in the
\* state the message is sent from.
C28_FirstTurnPayload ==
  [][ ( /\ Len(sentTurns') = Len(sentTurns) + 1
        /\ sentTurns'[Len(sentTurns')].kind = "first" )
      => LET turn == sentTurns'[Len(sentTurns')]
             said == messages'[Len(messages')]
         IN  /\ said.sender = Sender.User
             /\ turn.text = said.text
             /\ IF currentImage # NoImage
                THEN turn.image # NoImage /\ turn.image = currentImageBase64
                ELSE turn.image = NoImage ]_vars

\* One exchange was started without an image and one with an image.
C28_Witness ==
  \E j, k \in DOMAIN sentTurns :
    /\ sentTurns[j].kind = "first"
    /\ sentTurns[j].image = NoImage
    /\ sentTurns[j].text = UserText
    /\ sentTurns[k].kind = "first"
    /\ sentTurns[k].image # NoImage
    /\ sentTurns[k].image = currentImageBase64

\* Exchange x has ended.
Ended(x) == \A l \in Loops : loop[l].x = x => loop[l].pc = "idle"

\* The request of ledger entry e was run against image img.
RanAgainst(e, img) ==
  \E j \in DOMAIN capCalls :
    /\ capCalls[j].x = e.x
    /\ capCalls[j].r = e.r
    /\ capCalls[j].call = e.call
    /\ capCalls[j].img = img

\* The type of the boxes a tool produces.
BoxTypeOf(toolName) == IF toolName = "ocr_engine" THEN "text" ELSE "object"

C30_FailedUploadChangesNothing ==
  [][ (nUploads' # nUploads /\ last'.op = "uploadFailed")
      => /\ currentImage' = currentImage
         /\ currentImageBase64' = currentImageBase64
         /\ detections' = detections
         /\ toolLogs' = toolLogs
         /\ Len(messages') = Len(messages) + 1
         /\ SubSeq(messages', 1, Len(messages)) = messages
         /\ messages'[Len(messages')] =
              Message(Sender.System, TextUploadError) ]_vars

\* An upload has just failed while an image with detections and a ledger
\* entry was active.
C30_Witness ==
  /\ last.op = "uploadFailed"
  /\ currentImage # NoImage
  /\ currentImageBase64 = currentImage
  /\ detections # << >>
  /\ toolLogs # << >>
  /\ messages[Len(messages)] = Message(Sender.System, TextUploadError)


\* C31: the active image is set exactly when its payload is set, in the
\* state and in what an activation in flight has captured of it, and no
\* ocr_engine request ends with an undefined result: with an image it is
\* handed to the OCR capability, without one its result is the error.
C31_ImageIffPayload ==
  /\ currentImage = NoImage <=> currentImageBase64 = NoImage
  /\ \A l \in Loops : loop[l].img = NoImage <=> loop[l].b64 = NoImage
  /\ \A k \in DOMAIN toolLogs :
       (toolLogs[k].toolName = "ocr_engine" /\ toolLogs[k].status # "pending")
       => /\ toolLogs[k].result.defined
          /\ toolLogs[k].result.shape = "success"
             => \E j \in DOMAIN capCalls :
                  /\ capCalls[j].tool = "runOCR"
                  /\ capCalls[j].x = toolLogs[k].x
                  /\ capCalls[j].r = toolLogs[k].r
                  /\ capCalls[j].call = toolLogs[k].call
                  /\ capCalls[j].img # NoImage

\* An ocr_engine request sent with an active image has been answered by
\* the OCR capability.
C31_Witness ==
  /\ currentImage # NoImage
  /\ currentImageBase64 # NoImage
  /\ \E k \in DOMAIN toolLogs :
       /\ toolLogs[k].toolName = "ocr_engine"
       /\ toolLogs[k].status = "success"
       /\ toolLogs[k].result.shape = "success"
       /\ toolLogs[k].active = currentImage


\* The messages an exchange records after its user message.
OfExchange(m) ==
  \/ m.sender = Sender.Model
  \/ m = Message(Sender.System, TextAgentError)
  \/ m = Message(Sender.System, TextDownloading)

\* C32: every step keeps the recorded messages as they are and where they
\* are, and only appends; a step that starts an exchange appends exactly
\* its user message and sends the first model turn; and a message of an
\* exchange is appended by an activation in flight, after the user message
\* of that activation.
C32_MessagesAppendOnly ==
  [][ /\ Len(messages') >= Len(messages)
      /\ SubSeq(messages', 1, Len(messages)) = messages
      /\ nSubmits' # nSubmits
         => /\ messages' = Append(messages, Message(Sender.User, UserText))
            /\ Len(sentTurns') = Len(sentTurns) + 1
            /\ sentTurns'[Len(sentTurns')].kind = "first"
            /\ sentTurns'[Len(sentTurns')].text = UserText
      /\ \A k \in (Len(messages) + 1)..Len(messages') :
           /\ messages'[k].sender = Sender.User => nSubmits' = nSubmits + 1
           /\ OfExchange(messages'[k])
              => \E l \in Loops :
                   /\ InFlight(l)
                   /\ loop[l].m \in 1..(k - 1)
                   /\ messages'[loop[l].m].sender = Sender.User ]_vars

\* An upload, then an exchange that ended with an agent message after its
\* user message.
C32_Witness ==
  /\ last.op = "modelReply"
  /\ Len(messages) >= 3
  /\ messages[1] = Message(Sender.System, TextUploaded)
  /\ messages[Len(messages)].sender = Sender.Model
  /\ \E k \in 2..(Len(messages) - 1) : messages[k].sender = Sender.User


\* C33: isAnalyzing is true exactly in the states in which an activation
\* of handleSendMessage is in flight, its user message being recorded.
C33_AnalyzingIffInFlight ==
  /\ isAnalyzing <=> \E l \in Loops : InFlight(l)
  /\ \A l \in Loops :
       InFlight(l) => /\ loop[l].m \in DOMAIN messages
                      /\ messages[loop[l].m].sender = Sender.User

\* A second exchange is in flight after a first one has ended in an error.
C33_Witness ==
  /\ isAnalyzing
  /\ nSubmits = 2
  /\ \E l \in Loops : InFlight(l) /\ loop[l].x = 2
  /\ \E k \in DOMAIN messages :
       messages[k] = Message(Sender.System, TextAgentError)


\* C37: a step taken while no chat session exists records no user message,
\* starts no exchange, leaves isAnalyzing, the ledger and the histories of
\* model and capability calls as they are; the call of handleSendMessage
\* in such a state changes nothing of the application's state at all.
C37_NoSessionNoOp ==
  [][ /\ ~chatSession
         => /\ nSubmits' = nSubmits
            /\ isAnalyzing' = isAnalyzing
            /\ toolLogs' = toolLogs
            /\ sentTurns' = sentTurns
            /\ capCalls' = capCalls
            /\ loop' = loop
            /\ \A k \in (Len(messages) + 1)..Len(messages') :
                 messages'[k].sender = Sender.System
      /\ (last'.op = "sendNoSession" /\ last.op # "sendNoSession")
         => /\ ~chatSession
            /\ UNCHANGED << messages, toolLogs, isAnalyzing, detections,
                            sentTurns, capCalls, modelTurns, loop,
                            currentImage, currentImageBase64 >> ]_vars

\* handleSendMessage has just returned at its session guard, after an
\* upload.
C37_Witness ==
  /\ last.op = "sendNoSession"
  /\ ~chatSession
  /\ ~isAnalyzing
  /\ nSubmits = 0
  /\ messages = << Message(Sender.System, TextUploaded) >>
  /\ sentTurns = << >>


\* The comma-separated parts of s, as pairs of first and last index.
Segments(s) ==
  { seg \in (1..(Len(s) + 1)) \X (0..Len(s)) :
      /\ seg[1] <= seg[2] + 1
      /\ \A i \in seg[1]..seg[2] : s[i] # ","
      /\ seg[1] = 1 \/ s[seg[1] - 1] = ","
      /\ seg[2] = Len(s) \/ s[seg[2] + 1] = "," }

\* The targets of the filter string s: each part without the blanks around
\* it.
TargetsIn(s) ==
  { SubSeq(s, a, b) : << a, b >> \in
      { sp \in (1..(Len(s) + 1)) \X (0..Len(s)) :
          /\ sp[1] <= sp[2] + 1
          /\ sp[1] <= sp[2] => s[sp[1]] # " " /\ s[sp[2]] # " "
          /\ \E seg \in Segments(s) :
               /\ seg[1] <= sp[1]
               /\ sp[2] <= seg[2]
               /\ \A i \in seg[1]..(sp[1] - 1) : s[i] = " "
               /\ \A i \in (sp[2] + 1)..seg[2] : s[i] = " " } }

SameIgnoringCase(u, v) ==
  Len(u) = Len(v) /\ \A i \in 1..Len(u) : Lower(u[i]) = Lower(v[i])

LabelContains(label, t) ==
  \E i \in 0..(Len(label) - Len(t)) :
    SameIgnoringCase(SubSeq(label, i + 1, i + Len(t)), t)

\* Detection r is asked for by the filter string s.
Wanted(r, s) == \E t \in TargetsIn(s) : LabelContains(r.label, t)

\* Caller c's detection request had a non-empty filter string and its
\* inference gave an output.
Filtered(c) ==
  /\ callers[c].pc = "done"
  /\ callers[c].kind = "dino"
  /\ callers[c].args.bag
  /\ callers[c].args.target_objects.t = "string"
  /\ callers[c].args.target_objects.s # << >>
  /\ callers[c].inner = "returned"

\* C34: with a non-empty filter string the detections returned are, in
\* their order, those whose label contains one of the comma-separated
\* targets (blanks around a target and case ignored) when there is one,
\* and all detections when there is none; so they are not empty unless
\* the unfiltered list is.
C34_FilterOrAll ==
  \A c \in DOMAIN callers :
    Filtered(c) =>
      LET all == mapResults(callers[c].output)
          s == callers[c].args.target_objects.s
          Asked(r) == Wanted(r, s)
          wanted == SelectSeq(all, Asked)
      IN  /\ callers[c].boxes = IF wanted # << >> THEN wanted ELSE all
          /\ all # << >> => callers[c].boxes # << >>

\* A filter has kept one of two detections, and a filter that matches
\* nothing has kept both.
C34_Witness ==
  \E c, d \in DOMAIN callers :
    /\ Filtered(c)
    /\ Len(callers[c].output) = 2
    /\ Len(callers[c].boxes) = 1
    /\ Filtered(d)
    /\ callers[d].args.target_objects.s = << "t", "a", "g" >>
    /\ Len(callers[d].output) = 2
    /\ Len(callers[d].boxes) = 2


\* C35: getModelStatus reports 'ready' exactly when a load has succeeded,
\* and then in every later state; it reports 'loading' only while a load
\* is in progress; a step in which a load fails leaves it reporting
\* 'idle', and a call of initVisionModel made while it reports 'idle'
\* starts a new load.
C35_StatusFollowsLoads ==
  [][ LET before == getModelStatus(detectionPipeline, isModelLoading)
          after == getModelStatus(detectionPipeline', isModelLoading')
      IN  /\ before = "ready" <=> loads.succeeded = 1
          /\ after = "ready" <=> loads'.succeeded = 1
          /\ before = "ready" => after = "ready"
          /\ before = "loading" => LoadsInProgress = 1
          /\ after = "loading" => loads'.started = loads'.finished + 1
          /\ ( /\ loads'.finished = loads.finished + 1
               /\ loads'.succeeded = loads.succeeded ) => after = "idle"
          /\ \A c \in DOMAIN callers :
               ( /\ before = "idle"
                 /\ callers[c].pc = "idle"
                 /\ callers'[c].kind = "initVisionModel" )
               => /\ loads'.started = loads.started + 1
                  /\ callers'[c].pc = "load"
                  /\ after = "loading" ]_vars

\* After a failed load a call of initVisionModel has started the second
\* load.
C35_Witness ==
  /\ getModelStatus(detectionPipeline, isModelLoading) = "loading"
  /\ loads = [started |-> 2, finished |-> 1, succeeded |-> 0]
  /\ \E c \in DOMAIN callers :
       callers[c].kind = "initVisionModel" /\ callers[c].pc = "load"


\* The ledger entry of the request activation l is at.
EntryOf(l, logs) ==
  CHOOSE k \in DOMAIN logs : logs[k].id = loop[l].toolLogId

C38_OneWorkerAndCallersWait ==
  /\ inits.created <= 1
  /\ \A c \in DOMAIN ocrCalls :
       (ocrCalls[c].pc = "done" /\ ocrCalls[c].saw > 0)
       => /\ inits.finished >= ocrCalls[c].saw
          /\ worker => ocrCalls[c].result # "notReady"

====
